---------------------------- MODULE Spec2Model ----------------------------
(***************************************************************************)
(* The message fan-out Broker of core/lib/src/message/broker.rs.           *)
(*                                                                         *)
(* Broker::poll_next scans the attached Receivers in Vec order, dequeues   *)
(* the first ready message, spawns a send_message task for it and returns  *)
(* Ready(Some(())).  A send_message task locks the Registry (upgrades),    *)
(* walks it and spawns one write task per Sink; a write task locks its     *)
(* Sink, calls write_all and throws the result away.                       *)
(*                                                                         *)
(* Every tokio task is a process of its own: the steps of different tasks  *)
(* interleave freely, as they do on the multi-threaded runtime.            *)
(*                                                                         *)
(* The conditional GET of core/lib/src/response/named_file.rs is modelled  *)
(* beside it, with a specification of its own (FileSpec).                  *)
(***************************************************************************)
EXTENDS Integers, Sequences, FiniteSets

\* ------------------------------------------------------------- bounds
\* Channels created by message::channel(), named in the order they are attached.
NumChannels == 3
\* Operations of the Broker's surroundings in one run: channels attached,
\* messages sent, Senders dropped, Sinks registered and unregistered, and the
\* calls of poll_next that find no message.
MaxEvents == 5

\* Connections the upgrade layer may accept, named in the order it accepts them.
NumSinks == 2
\* Messages between unbounded_send and the end of their write tasks, in the
\* runs with an endless supply of messages (LiveSpec).
MaxInFlight == 2

\* Clock readings of the file system within one second of an HTTP date (the
\* file system keeps nanoseconds, an HTTP date whole seconds).
TicksPerSecond == 2
\* The latest second of a file's modification time and of a request's date.
MaxSecond == 3

Channels == 1 .. NumChannels
Sinks == 1 .. NumSinks

\* A Message: the k-th message sent on channel r.
Message(r, k) == [r |-> r, k |-> k]

VARIABLES
    receivers,   \* Broker.receivers: Vec<Receiver>, as channel ids
    queue,       \* queue[r]: messages buffered in channel r
    open,        \* open[r]: some Sender of channel r is still alive
    upgrades,    \* Broker.upgrades: the Registry, Vec<Arc<Mutex<Upgraded>>>
    accepted,    \* Sinks the upgrade layer has created so far
    regLock,     \* the Registry's futures Mutex is held
    sendTasks,   \* spawned send_message tasks
    writeTasks,  \* spawned per-Sink write tasks
    sinkLock,    \* sinkLock[s]: the Sink's futures Mutex is held
    polled,      \* what the last poll_next returned
    \* observations of the run, read by the properties only
    sent,        \* sent[r]: messages sent on channel r so far
    yielded,     \* items poll_next has returned
    idle,        \* calls of poll_next that dequeued nothing
    fanout,      \* <<m, s>>: send_message spawned the write of m to s
    written,     \* written[s]: messages write_all has written to s
    failed,      \* failed[s]: messages whose write_all to s returned Err
    last,        \* index in receivers last dequeued from (0: none yet)
    \* the static file server; an Option is a set of at most one element
    mtime,       \* Metadata::modified() of the file: {} is Err, {t} is Ok(t)
    named_file,  \* the NamedFile a route handler has opened
    req,         \* the Request handed to respond_to
    response     \* the Response respond_to has built

prog == <<receivers, queue, open, upgrades, accepted, regLock, sendTasks,
          writeTasks, sinkLock, polled>>
hist == <<sent, yielded, idle, fanout, written, failed>>
web == <<mtime, named_file, req, response>>
vars == <<prog, hist, last, web>>

\* ------------------------------------------------------------ helpers
Range(f) == {f[i] : i \in DOMAIN f}

RECURSIVE SumOver(_, _)
SumOver(f, S) ==
    IF S = {} THEN 0
    ELSE LET x == CHOOSE y \in S : TRUE IN f[x] + SumOver(f, S \ {x})

\* Messages somewhere between Sender and the end of their write tasks.
InFlight ==
    UNION {Range(queue[r]) : r \in Channels}
        \cup {t.msg : t \in sendTasks} \cup {t.msg : t \in writeTasks}

\* futures_channel UnboundedReceiver::try_next:
\*   Ok(Some(m)) a message is buffered; Err: empty, a Sender is alive;
\*   Ok(None): empty and every Sender dropped.
TryNext(r) ==
    IF queue[r] # <<>> THEN "some" ELSE IF open[r] THEN "err" ELSE "none"

\* The index poll_next's for loop returns from: the first Receiver of the Vec
\* whose try_next is Ok(Some(_)); 0 when the loop runs to its end.
FirstReady ==
    LET ready == {i \in 1 .. Len(receivers) : TryNext(receivers[i]) = "some"}
    IN IF ready = {} THEN 0 ELSE CHOOSE i \in ready : \A j \in ready : i <= j

Exhausted(r) == TryNext(r) = "none"

\* Messages poll_next has taken from the channels so far.
Dequeued ==
    SumOver(sent, Channels) - SumOver([r \in Channels |-> Len(queue[r])], Channels)

\* What the surroundings have done so far, counted from the state.
Events ==
    Len(receivers) + SumOver(sent, Channels)
        + Cardinality({r \in Channels : ~open[r]})
        + Cardinality(accepted) + Cardinality(accepted \ Range(upgrades))
        + idle

\* --------------------------------------------------------------- init
BrokerInit ==
    /\ receivers = <<>>
    /\ queue = [r \in Channels |-> <<>>]
    /\ open = [r \in Channels |-> TRUE]
    /\ upgrades = <<>>
    /\ accepted = {}
    /\ regLock = FALSE
    /\ sendTasks = {}
    /\ writeTasks = {}
    /\ sinkLock = [s \in Sinks |-> FALSE]
    /\ polled = "none"
    /\ sent = [r \in Channels |-> 0]
    /\ yielded = 0
    /\ idle = 0
    /\ fanout = {}
    /\ written = [s \in Sinks |-> {}]
    /\ failed = [s \in Sinks |-> {}]
    /\ last = 0

\* No file has been opened and no request answered.
NoNamedFile == [opened |-> FALSE, with |-> "open", modified |-> {}]
NoRequest == [if_modified_since |-> {}]
NoResponse ==
    [built |-> FALSE, status |-> "Ok", body |-> FALSE, last_modified |-> {}]

WebIdle ==
    /\ named_file = NoNamedFile
    /\ req = NoRequest
    /\ response = NoResponse

Init == BrokerInit /\ mtime = {} /\ WebIdle

\* ------------------------------------------------------------ actions
\* An extend_with that hands over the new Receivers with their buffers cleared.
ExtendWithStepClearing(n) ==
    /\ Len(receivers) + n <= NumChannels
    /\ receivers' = receivers \o [i \in 1 .. n |-> Len(receivers) + i]
    /\ queue' = [r \in Channels |->
           IF r \in Len(receivers) + 1 .. Len(receivers) + n
           THEN <<>> ELSE queue[r]]
    /\ UNCHANGED <<open, upgrades, accepted, regLock, sendTasks,
                   writeTasks, sinkLock, polled>>

\* Broker::extend_with(receivers): the next n channels, in order.
ExtendWithStep(n) ==
    /\ Len(receivers) + n <= NumChannels
    /\ receivers' = receivers \o [i \in 1 .. n |-> Len(receivers) + i]
    /\ UNCHANGED <<queue, open, upgrades, accepted, regLock, sendTasks,
                   writeTasks, sinkLock, polled>>

ExtendWith ==
    \E n \in 1 .. NumChannels :
        /\ Events + n <= MaxEvents
        /\ ExtendWithStep(n)
        /\ UNCHANGED <<hist, last, web>>

\* Sender::unbounded_send(m): never blocks; the channel is open while a
\* Sender lives.
SendStep(r, m) ==
    /\ open[r]
    /\ queue' = [queue EXCEPT ![r] = Append(@, m)]
    /\ UNCHANGED <<receivers, open, upgrades, accepted, regLock, sendTasks,
                   writeTasks, sinkLock, polled>>

Send ==
    \E r \in Channels :
        /\ Events < MaxEvents
        /\ SendStep(r, Message(r, sent[r] + 1))
        /\ sent' = [sent EXCEPT ![r] = @ + 1]
        /\ UNCHANGED <<yielded, idle, fanout, written, failed, last, web>>

\* The last Sender of channel r is dropped.
DropSendersStep(r) ==
    /\ open[r]
    /\ open' = [open EXCEPT ![r] = FALSE]
    /\ UNCHANGED <<receivers, queue, upgrades, accepted, regLock, sendTasks,
                   writeTasks, sinkLock, polled>>

DropSenders ==
    \E r \in Channels :
        Events < MaxEvents /\ DropSendersStep(r) /\ UNCHANGED <<hist, last, web>>

\* The upgrade layer pushes a new Sink (the next one) into the Registry, under
\* its lock.
RegisterStep(s) ==
    /\ s = Cardinality(accepted) + 1
    /\ ~regLock
    /\ upgrades' = Append(upgrades, s)
    /\ accepted' = accepted \cup {s}
    /\ UNCHANGED <<receivers, queue, open, regLock, sendTasks, writeTasks,
                   sinkLock, polled>>

Register ==
    \E s \in Sinks :
        Events < MaxEvents /\ RegisterStep(s) /\ UNCHANGED <<hist, last, web>>

\* The upgrade layer removes the Sink of a closed connection, under the lock.
UnregisterStep(s) ==
    /\ s \in Range(upgrades)
    /\ ~regLock
    /\ upgrades' = SelectSeq(upgrades, LAMBDA x : x # s)
    /\ UNCHANGED <<receivers, queue, open, accepted, regLock, sendTasks,
                   writeTasks, sinkLock, polled>>

Unregister ==
    \E s \in Sinks :
        Events < MaxEvents /\ UnregisterStep(s) /\ UNCHANGED <<hist, last, web>>

\* A poll_next that takes from the last ready Receiver of the Vec.
PollStepLastReady ==
    LET ready == {i \in 1 .. Len(receivers) :
                     TryNext(receivers[i]) = "some"}
    IN /\ polled' = "Ready"
       /\ IF ready = {}
          THEN UNCHANGED <<queue, sendTasks>>
          ELSE LET r == receivers[CHOOSE i \in ready : \A j \in ready : j <= i]
               IN /\ queue' = [queue EXCEPT ![r] = Tail(@)]
                  /\ sendTasks' = sendTasks \cup
                         {[msg |-> Head(queue[r]), pc |-> "spawned",
                           begun |-> Range(upgrades)]}
       /\ UNCHANGED <<receivers, open, upgrades, accepted, regLock,
                      writeTasks, sinkLock>>

\* A poll_next that ends the stream when its scan finds no message.
PollStepEnding ==
    /\ polled' = IF FirstReady = 0 THEN "None" ELSE "Ready"
    /\ IF FirstReady = 0
       THEN UNCHANGED <<queue, sendTasks>>
       ELSE LET r == receivers[FirstReady]
            IN /\ queue' = [queue EXCEPT ![r] = Tail(@)]
               /\ sendTasks' = sendTasks \cup
                      {[msg |-> Head(queue[r]), pc |-> "spawned",
                        begun |-> Range(upgrades)]}
    /\ UNCHANGED <<receivers, open, upgrades, accepted, regLock, writeTasks,
                   sinkLock>>

\* Broker::poll_next, one whole call.  A send_message task remembers, for the
\* properties, the Registry membership at the instant of the dequeue (begun).
PollStep ==
    /\ polled' = "Ready"
    /\ IF FirstReady = 0
       THEN UNCHANGED <<queue, sendTasks>>
       ELSE LET r == receivers[FirstReady]
            IN /\ queue' = [queue EXCEPT ![r] = Tail(@)]
               /\ sendTasks' = sendTasks \cup
                      {[msg |-> Head(queue[r]), pc |-> "spawned",
                        begun |-> Range(upgrades)]}
    /\ UNCHANGED <<receivers, open, upgrades, accepted, regLock, writeTasks,
                   sinkLock>>

Poll ==
    /\ FirstReady = 0 => Events < MaxEvents
    /\ PollStep
    /\ yielded' = yielded + 1
    /\ idle' = IF FirstReady = 0 THEN idle + 1 ELSE idle
    /\ last' = IF FirstReady = 0 THEN last ELSE FirstReady
    /\ UNCHANGED <<sent, fanout, written, failed, web>>

\* send_message: `upgrades.lock().await` returns the guard.
SendLockStep(t) ==
    /\ t.pc = "spawned"
    /\ ~regLock
    /\ regLock' = TRUE
    /\ sendTasks' = (sendTasks \ {t}) \cup {[t EXCEPT !.pc = "iter"]}
    /\ UNCHANGED <<receivers, queue, open, upgrades, accepted, writeTasks,
                   sinkLock, polled>>

SendLock == \E t \in sendTasks : SendLockStep(t) /\ UNCHANGED <<hist, last, web>>

\* format!("{:?}", msg): the Debug text of the message, as bytes to write.
Format(msg) == <<"Message", msg.r, msg.k>>

\* A send_message that passes over the first Sink of the Registry.
SendLoopStepSkipping(t) ==
    /\ t.pc = "iter"
    /\ writeTasks' = writeTasks \cup
           {[msg |-> t.msg, payload |-> Format(t.msg), sink |-> upgrades[i],
             pc |-> "lock", begun |-> t.begun] : i \in 2 .. Len(upgrades)}
    /\ regLock' = FALSE
    /\ sendTasks' = sendTasks \ {t}
    /\ UNCHANGED <<receivers, queue, open, upgrades, accepted, sinkLock,
                   polled>>

\* A send_message that takes every Sink's lock itself, inside its loop.
SendLoopStepJoining(t) ==
    /\ t.pc = "iter"
    /\ \A i \in 1 .. Len(upgrades) : ~sinkLock[upgrades[i]]
    /\ writeTasks' = writeTasks \cup
           {[msg |-> t.msg, payload |-> Format(t.msg), sink |-> upgrades[i],
             pc |-> "lock", begun |-> t.begun] : i \in 1 .. Len(upgrades)}
    /\ regLock' = FALSE
    /\ sendTasks' = sendTasks \ {t}
    /\ UNCHANGED <<receivers, queue, open, upgrades, accepted, sinkLock,
                   polled>>

\* A send_message whose Registry guard lives on in the write tasks it spawns.
SendLoopStepHolding(t) ==
    /\ t.pc = "iter"
    /\ writeTasks' = writeTasks \cup
           {[msg |-> t.msg, payload |-> Format(t.msg), sink |-> upgrades[i],
             pc |-> "lock", begun |-> t.begun] : i \in 1 .. Len(upgrades)}
    /\ regLock' = (upgrades # <<>>)
    /\ sendTasks' = sendTasks \ {t}
    /\ UNCHANGED <<receivers, queue, open, upgrades, accepted, sinkLock,
                   polled>>

\* send_message: the for loop over the locked Vec: for every Sink clone the
\* Arc, format the payload, tokio::spawn the write task; then the guard is
\* dropped and the task ends.  The loop holds the Registry guard and has no
\* await in it, and a spawned write task touches nothing but its own Sink, so
\* the loop is one step.
SendLoopStep(t) ==
    /\ t.pc = "iter"
    /\ writeTasks' = writeTasks \cup
           {[msg |-> t.msg, payload |-> Format(t.msg), sink |-> upgrades[i],
             pc |-> "lock", begun |-> t.begun] : i \in 1 .. Len(upgrades)}
    /\ regLock' = FALSE
    /\ sendTasks' = sendTasks \ {t}
    /\ UNCHANGED <<receivers, queue, open, upgrades, accepted, sinkLock,
                   polled>>

SendLoop ==
    \E t \in sendTasks :
        /\ SendLoopStep(t)
        /\ fanout' = fanout \cup {<<t.msg, s>> : s \in Range(upgrades)}
        /\ UNCHANGED <<sent, yielded, idle, written, failed, last, web>>

SendLoopLive ==
    \E t \in sendTasks : SendLoopStep(t) /\ UNCHANGED <<hist, last, web>>

\* A write task that does not wait for the Sink's lock.
WriteLockStepUnguarded(t) ==
    /\ t.pc = "lock"
    /\ sinkLock' = [sinkLock EXCEPT ![t.sink] = TRUE]
    /\ writeTasks' = (writeTasks \ {t}) \cup {[t EXCEPT !.pc = "write"]}
    /\ UNCHANGED <<receivers, queue, open, upgrades, accepted, regLock,
                   sendTasks, polled>>

\* A write task that waits for one lock shared by all the Sinks.
WriteLockStepShared(t) ==
    /\ t.pc = "lock"
    /\ \A s \in Sinks : ~sinkLock[s]
    /\ sinkLock' = [sinkLock EXCEPT ![t.sink] = TRUE]
    /\ writeTasks' = (writeTasks \ {t}) \cup {[t EXCEPT !.pc = "write"]}
    /\ UNCHANGED <<receivers, queue, open, upgrades, accepted, regLock,
                   sendTasks, polled>>

\* A write task that gives up when its Sink has left the Registry.
WriteLockStepIfRegistered(t) ==
    /\ t.pc = "lock"
    /\ ~sinkLock[t.sink]
    /\ IF t.sink \in Range(upgrades)
       THEN /\ sinkLock' = [sinkLock EXCEPT ![t.sink] = TRUE]
            /\ writeTasks' = (writeTasks \ {t}) \cup {[t EXCEPT !.pc = "write"]}
       ELSE /\ writeTasks' = writeTasks \ {t}
            /\ UNCHANGED sinkLock
    /\ UNCHANGED <<receivers, queue, open, upgrades, accepted, regLock,
                   sendTasks, polled>>

\* write task: `upgraded.lock().await` returns the guard.
WriteLockStep(t) ==
    /\ t.pc = "lock"
    /\ ~sinkLock[t.sink]
    /\ sinkLock' = [sinkLock EXCEPT ![t.sink] = TRUE]
    /\ writeTasks' = (writeTasks \ {t}) \cup {[t EXCEPT !.pc = "write"]}
    /\ UNCHANGED <<receivers, queue, open, upgrades, accepted, regLock,
                   sendTasks, polled>>

WriteLock == \E t \in writeTasks : WriteLockStep(t) /\ UNCHANGED <<hist, last, web>>

\* A write task whose failure cancels the other writes of its message.
WriteEndStepAborting(t, ok) ==
    LET gone == IF ok THEN {t} ELSE {u \in writeTasks : u.msg = t.msg}
    IN /\ t.pc = "write"
       /\ sinkLock' = [s \in Sinks |->
              sinkLock[s] /\ ~\E u \in gone : u.sink = s /\ u.pc = "write"]
       /\ writeTasks' = writeTasks \ gone
       /\ UNCHANGED <<receivers, queue, open, upgrades, accepted, regLock,
                      sendTasks, polled>>

\* A write task that keeps the Sink locked when write_all fails.
WriteEndStepKeepingOnErr(t, ok) ==
    /\ t.pc = "write"
    /\ sinkLock' = [sinkLock EXCEPT ![t.sink] = ~ok]
    /\ writeTasks' = writeTasks \ {t}
    /\ UNCHANGED <<receivers, queue, open, upgrades, accepted, regLock,
                   sendTasks, polled>>

\* write task: write_all returns (ok or not), `.map(|_| ())` drops the
\* result, the Sink guard is dropped, the task ends.
WriteEndStep(t, ok) ==
    /\ t.pc = "write"
    /\ sinkLock' = [sinkLock EXCEPT ![t.sink] = FALSE]
    /\ writeTasks' = writeTasks \ {t}
    /\ UNCHANGED <<receivers, queue, open, upgrades, accepted, regLock,
                   sendTasks, polled>>

WriteEnd ==
    \E t \in writeTasks : \E ok \in BOOLEAN :
        /\ WriteEndStep(t, ok)
        /\ IF ok
           THEN /\ written' = [written EXCEPT ![t.sink] = @ \cup {t.msg}]
                /\ UNCHANGED failed
           ELSE /\ failed' = [failed EXCEPT ![t.sink] = @ \cup {t.msg}]
                /\ UNCHANGED written
        /\ UNCHANGED <<sent, yielded, idle, fanout, last, web>>

\* ------------------------------------------- endless supply of messages
\* The same operations with the run's counters and write log left alone, so
\* that Senders may send for ever: a message takes the least sequence number
\* of its channel that no message in flight carries.
FreeNumber(r) ==
    CHOOSE k \in 1 .. MaxInFlight :
        /\ Message(r, k) \notin InFlight
        /\ \A j \in 1 .. k - 1 : Message(r, j) \in InFlight

SendLive ==
    \E r \in Channels :
        /\ Cardinality(InFlight) < MaxInFlight
        /\ SendStep(r, Message(r, FreeNumber(r)))
        /\ UNCHANGED <<hist, last, web>>

PollLive ==
    /\ PollStep
    /\ last' = IF FirstReady = 0 THEN last ELSE FirstReady
    /\ UNCHANGED <<hist, web>>

WriteEndLive ==
    \E t \in writeTasks : \E ok \in BOOLEAN :
        WriteEndStep(t, ok) /\ UNCHANGED <<hist, last, web>>

Next ==
    \/ ExtendWith
    \/ Send
    \/ DropSenders
    \/ Register
    \/ Unregister
    \/ Poll
    \/ SendLock
    \/ SendLoop
    \/ WriteLock
    \/ WriteEnd

Spec == Init /\ [][Next]_vars

\* The same runs under the scheduling the code gets: poll_next always returns
\* Ready, so the stream's consumer calls it again; tokio runs every spawned
\* task that can make progress; write_all returns in the end (well or not).
FairSpec ==
    /\ Spec
    /\ WF_vars(Poll)
    /\ WF_vars(SendLock)
    /\ WF_vars(SendLoop)
    /\ WF_vars(WriteLock)
    /\ WF_vars(WriteEnd)

\* The runs in which the connection behind one Sink may stall: write_all on
\* that Sink need not ever return, on every other Sink it returns in the end.
StalledSink == 1

WriteEndElsewhere ==
    /\ WriteEnd
    /\ \E s \in Sinks \ {StalledSink} : sinkLock[s] /\ ~sinkLock'[s]

StallSpec ==
    /\ Spec
    /\ WF_vars(Poll)
    /\ WF_vars(SendLock)
    /\ WF_vars(SendLoop)
    /\ WF_vars(WriteLock)
    /\ WF_vars(WriteEndElsewhere)

LiveNext ==
    \/ ExtendWith
    \/ SendLive
    \/ DropSenders
    \/ Register
    \/ Unregister
    \/ PollLive
    \/ SendLock
    \/ SendLoopLive
    \/ WriteLock
    \/ WriteEndLive

\* poll_next always returns Ready, so the stream's consumer calls it again and
\* again; tokio runs every spawned task that can make progress.
LiveSpec ==
    /\ Init
    /\ [][LiveNext]_vars
    /\ WF_vars(PollLive)
    /\ WF_vars(SendLock)
    /\ WF_vars(SendLoopLive)
    /\ WF_vars(WriteLock)
    /\ WF_vars(WriteEndLive)

\* ------------------------------------------------- the static file server
\* Modification times the file system may report, in clock ticks, and the
\* whole seconds an HTTP date can name.
ModTimes == 0 .. (MaxSecond + 1) * TicksPerSecond - 1
HttpDates == 0 .. MaxSecond

\* The text of an If-Modified-Since or Last-Modified header: an HTTP date
\* naming a second, or something else.
HeaderValues ==
    {[http_date |-> TRUE, sec |-> d] : d \in HttpDates}
        \cup {[http_date |-> FALSE, sec |-> 0]}

\* IfModifiedSince::from(SystemTime): an HTTP date keeps the whole seconds of
\* the time and drops the rest.
HttpDate(t) == t \div TicksPerSecond

\* HeaderTrait::encode of an IfModifiedSince: the text of the date.
Encode(d) == [http_date |-> TRUE, sec |-> d]

\* parse_if_modified_since: Ok(date) as {date}, Err as {}.
parse_if_modified_since(header) ==
    IF header.http_date THEN {header.sec} ELSE {}

\* An is_modified that takes the very second of the date for a change.
is_modified_or_same(if_modified_since, last_modified) ==
    if_modified_since <= HttpDate(last_modified)

\* IfModifiedSince::is_modified(last_modified): the date is earlier than the
\* HTTP date of the modification time.
is_modified(if_modified_since, last_modified) ==
    if_modified_since < HttpDate(last_modified)

\* respond_to, lines 158-166: the early return of 304.
NotModified(file, request) ==
    \E last_modified \in file.modified :
        \E header \in request.if_modified_since :
            \E if_modified_since \in parse_if_modified_since(header) :
                ~is_modified(if_modified_since, last_modified)

\* <NamedFile as Responder>::respond_to.
respond_to(file, request) ==
    IF NotModified(file, request)
    THEN [built |-> TRUE, status |-> "NotModified", body |-> FALSE,
          last_modified |-> {}]
    ELSE [built |-> TRUE, status |-> "Ok", body |-> TRUE,
          last_modified |-> {Encode(HttpDate(m)) : m \in file.modified}]

\* NamedFile::open(path).
OpenStep ==
    /\ ~named_file.opened
    /\ named_file' = [opened |-> TRUE, with |-> "open", modified |-> {}]
    /\ UNCHANGED <<mtime, req, response>>

Open == OpenStep /\ UNCHANGED <<prog, hist, last>>

\* NamedFile::with_last_modified_date(path): open, then
\* modified = metadata().modified().ok().
WithLastModifiedDateStep ==
    /\ ~named_file.opened
    /\ named_file' = [opened |-> TRUE, with |-> "with_last_modified_date",
                      modified |-> mtime]
    /\ UNCHANGED <<mtime, req, response>>

WithLastModifiedDate ==
    WithLastModifiedDateStep /\ UNCHANGED <<prog, hist, last>>

\* A GET request reaches the route and the NamedFile answers it; the request
\* carries an If-Modified-Since header or none.
RespondToStep(header) ==
    /\ named_file.opened
    /\ ~response.built
    /\ req' = [if_modified_since |-> header]
    /\ response' = respond_to(named_file, req')
    /\ UNCHANGED <<mtime, named_file>>

RespondTo ==
    \E header \in {{}} \cup {{v} : v \in HeaderValues} :
        RespondToStep(header) /\ UNCHANGED <<prog, hist, last>>

FileInit ==
    /\ BrokerInit
    /\ mtime \in {{}} \cup {{t} : t \in ModTimes}
    /\ WebIdle

FileNext ==
    \/ Open
    \/ WithLastModifiedDate
    \/ RespondTo

FileSpec == FileInit /\ [][FileNext]_vars

\* ------------------------------------------------------------- claims
\* Every message the bounded runs can send.
Msgs == {Message(r, k) : r \in Channels, k \in 1 .. MaxEvents}

\* This step is a call of poll_next.
PollCalled == yielded' = yielded + 1

\* Messages whose write to s completed (well) in this step.
NewlyWritten(s) == written'[s] \ written[s]

\* C1: per-Receiver ordering.  Whenever a message of Receiver r is written to
\* a Sink, no message that was enqueued on r after it has been written to that
\* Sink before: the writes of one Receiver's messages reach every Sink in the
\* order of the enqueues.
C1_PerReceiverOrder ==
    [][\A s \in Sinks : \A m \in NewlyWritten(s) : \A n \in written[s] :
           n.r = m.r => n.k < m.k]_vars

\* C2: round-robin scan.  A call of poll_next that dequeues takes the first
\* ready Receiver in cyclic order after the one last serviced; so it does not
\* service the same Receiver twice in a row while another one has a message.
CyclicRank(i) == (i + Len(receivers) - last - 1) % Len(receivers)

C2_RoundRobin ==
    [][(PollCalled /\ FirstReady # 0) =>
           /\ \A j \in 1 .. Len(receivers) :
                  TryNext(receivers[j]) = "some" =>
                      CyclicRank(last') <= CyclicRank(j)
           /\ (last' = last =>
                  \A j \in 1 .. Len(receivers) :
                      j # last => TryNext(receivers[j]) # "some")]_vars

\* C3: Sink write mutual exclusion.  At most one write task is inside
\* write_all on a given Sink.
Writing(s) == {t \in writeTasks : t.sink = s /\ t.pc = "write"}

C3_SinkMutualExclusion == \A s \in Sinks : Cardinality(Writing(s)) <= 1

\* A write is in flight on a Sink while another write task for the same Sink
\* waits for its lock.
C3_Witness ==
    \E s \in Sinks :
        /\ Writing(s) # {}
        /\ \E t \in writeTasks : t.sink = s /\ t.pc = "lock"

\* C4: failure isolation.  Once the write of a message to one Sink has
\* failed, the run still reaches, again and again, states in which every write
\* that send_message dispatched (the same message to the other Sinks, later
\* messages to any Sink) has been performed, every message sent on an attached
\* Receiver has been dequeued, and every dequeued message has been broadcast.
Attempted(m, s) == m \in written[s] \cup failed[s]

Settled ==
    /\ \A p \in fanout : Attempted(p[1], p[2])
    /\ \A i \in 1 .. Len(receivers) : queue[receivers[i]] = <<>>
    /\ sendTasks = {}

SomeWriteFailed == \E b \in Sinks : failed[b] # {}

C4_FailureIsolation == []<>(SomeWriteFailed => Settled)

\* The write of m to b has failed, m has reached another Sink a, and a later
\* message of the same Receiver is being written to a.
C4_Witness ==
    \E a \in Sinks, b \in Sinks, m \in Msgs :
        /\ a # b
        /\ m \in failed[b]
        /\ m \in written[a]
        /\ \E t \in writeTasks :
               /\ t.sink = a /\ t.pc = "write"
               /\ t.msg.r = m.r /\ t.msg.k > m.k

\* C5: a failed Sink is dropped.  A Sink on which a write has failed is not in
\* the Registry.
C5_FailedSinkDropped ==
    \A s \in Sinks : failed[s] # {} => s \notin Range(upgrades)

\* C6: no retroactive delivery.  A message is written only to Sinks that were
\* in the Registry at the instant poll_next dequeued it and spawned its
\* broadcast.
C6_NoRetroactiveDelivery ==
    \A t \in writeTasks : t.pc = "write" => t.sink \in t.begun

\* C7: exhaustion pruning.  A Receiver that a call of poll_next scans and finds
\* exhausted (try_next is Ok(None)) is not in the Receiver set after the call,
\* and a channel that has left the set does not come back.
Scanned ==
    IF FirstReady = 0 THEN 1 .. Len(receivers) ELSE 1 .. FirstReady

C7_ExhaustionPruning ==
    [][/\ PollCalled =>
              \A i \in Scanned :
                  Exhausted(receivers[i]) =>
                      receivers[i] \notin Range(receivers')
       /\ \A r \in Channels :
              (Exhausted(r) /\ r \notin Range(receivers)) =>
                  r \notin Range(receivers')]_vars

\* C8: exhaustion does not disturb the others.  An exhausted Receiver never
\* yields a message again, and while some attached Receiver is exhausted every
\* message waiting on another attached Receiver is eventually dequeued.
Attached(r) == r \in Range(receivers)

Waiting(m) == m \in Range(queue[m.r])

C8_ExhaustionHarmless ==
    /\ [][\A x \in Channels : Exhausted(x) => queue'[x] = <<>>]_vars
    /\ \A r \in Channels : \A k \in 1 .. MaxInFlight :
           [](( /\ Attached(r)
                /\ Waiting(Message(r, k))
                /\ \E x \in Channels \ {r} : Attached(x) /\ Exhausted(x))
               => <>(~Waiting(Message(r, k))))

\* C9: one delivery event per dequeue.  The items poll_next has yielded are
\* as many as the messages it has dequeued.
C9_OneEventPerDequeue == yielded = Dequeued

\* C10: no busy-wait.  A call of poll_next that finds no ready message on any
\* attached Receiver returns Pending.
C10_NoBusyWait ==
    [][(PollCalled /\ FirstReady = 0) => polled' = "Pending"]_vars

\* C11: termination.  A call of poll_next made while some attached Receiver
\* is not exhausted does not end the stream (it does not return Ready(None));
\* the stream ends only in a call that finds every attached Receiver exhausted.
SomeReceiverLives ==
    \E i \in 1 .. Len(receivers) : ~Exhausted(receivers[i])

C11_Termination ==
    [][(PollCalled /\ SomeReceiverLives) => polled' # "None"]_vars

\* poll_next has run to the end of its scan over a Receiver that is still open
\* and has returned an item.
C11_Witness ==
    /\ idle > 0
    /\ polled = "Ready"
    /\ \E i \in 1 .. Len(receivers) : TryNext(receivers[i]) = "err"

\* C12: intake is decoupled from slow Sinks.  Although the writes to one Sink
\* may stall for ever, the run reaches, again and again, states in which
\* poll_next has dequeued every message sent on an attached Receiver, every
\* dequeued message has been broadcast, and every write dispatched to another
\* Sink has been performed.
OthersServed ==
    /\ \A i \in 1 .. Len(receivers) : queue[receivers[i]] = <<>>
    /\ sendTasks = {}
    /\ \A p \in fanout : p[2] # StalledSink => Attempted(p[1], p[2])

C12_IntakeDecoupled == []<>OthersServed

\* The write of m to the stalled Sink has not returned, while another Sink has
\* received m and a message dequeued after it.
C12_Witness ==
    \E t \in writeTasks : \E s \in Sinks \ {StalledSink} :
        /\ t.sink = StalledSink /\ t.pc = "write"
        /\ t.msg \in written[s]
        /\ \E n \in written[s] : n.r = t.msg.r /\ n.k > t.msg.k

\* C13: attach loses and duplicates nothing.  A step never removes a Receiver
\* from the Broker's list (extend_with appends); a channel holds, in the order
\* they were sent, exactly the messages sent on it that have not been dequeued;
\* and a message leaves its channel only at the head, in a call of poll_next
\* that spawns a new broadcast for it.
QueueIntact(r) ==
    queue[r] = [i \in 1 .. Len(queue[r]) |->
                   Message(r, sent[r] - Len(queue[r]) + i)]

ReceiversKept ==
    /\ Len(receivers') >= Len(receivers)
    /\ \A i \in 1 .. Len(receivers) : receivers'[i] = receivers[i]

DequeuedOnce(r) ==
    Len(queue'[r]) < Len(queue[r]) =>
        /\ PollCalled
        /\ Attached(r)
        /\ queue'[r] = Tail(queue[r])
        /\ \E t \in sendTasks' \ sendTasks : t.msg = Head(queue[r])
        /\ \A t \in sendTasks \cup writeTasks : t.msg # Head(queue[r])
        /\ \A p \in fanout : p[1] # Head(queue[r])

DateOfRequest ==
    UNION {parse_if_modified_since(h) : h \in req.if_modified_since}

C14_ConditionalGet ==
    response.built =>
        IF named_file.with = "with_last_modified_date"
        THEN /\ response.status = "NotModified" <=>
                    \E d \in DateOfRequest : \E t \in mtime :
                        t <= d * TicksPerSecond
             /\ response.status # "NotModified" =>
                    /\ response.status = "Ok"
                    /\ response.body
                    /\ response.last_modified # {}
        ELSE response.status # "NotModified"

\* C14, amended: the modification time counts in whole seconds, as the HTTP
\* date it is sent as, and only when the file system reports one.  The 200 then
\* carries that HTTP date as Last-Modified (none when no time is reported).
C14_ConditionalGetInSeconds ==
    response.built =>
        IF named_file.with = "with_last_modified_date"
        THEN /\ response.status = "NotModified" <=>
                    \E d \in DateOfRequest : \E t \in mtime :
                        HttpDate(t) <= d
             /\ response.status # "NotModified" =>
                    /\ response.status = "Ok"
                    /\ response.body
                    /\ response.last_modified =
                           {Encode(HttpDate(t)) : t \in mtime}
        ELSE /\ response.status = "Ok"
             /\ response.body
             /\ response.last_modified = {}

\* The client sends back the Last-Modified date of a file whose modification
\* time lies within that second, after its start, and gets 304.
C14_Witness ==
    /\ response.built
    /\ named_file.with = "with_last_modified_date"
    /\ response.status = "NotModified"
    /\ \E d \in DateOfRequest : \E t \in mtime :
           HttpDate(t) = d /\ t > d * TicksPerSecond

\* C15: unregistering does not cancel dispatched writes.  The step that takes
\* a Sink out of the Registry leaves every write task and every Sink lock as
\* it was; a send_message that walks the Registry while a Sink is in it spawns
\* the write to that Sink; and every write that was spawned is performed in
\* the end (well or not), whether or not its Sink is still registered.
Removed == Range(upgrades) \ Range(upgrades')

Walked == {t \in sendTasks \ sendTasks' : t.pc = "iter"}

C15_UnregisterKeepsWrites ==
    /\ [][Removed # {} => writeTasks' = writeTasks /\ sinkLock' = sinkLock]_vars
    /\ [][\A t \in Walked : \A s \in Range(upgrades) :
              \E w \in writeTasks' \ writeTasks :
                  w.msg = t.msg /\ w.sink = s]_vars
    /\ []<>(\A p \in fanout : Attempted(p[1], p[2]))

\* A Sink is out of the Registry; of the writes spawned for it while it was in,
\* one has been performed and another is inside write_all.
C15_Witness ==
    \E s \in accepted \ Range(upgrades) :
        /\ written[s] \cup failed[s] # {}
        /\ \E t \in writeTasks : t.sink = s /\ t.pc = "write"

\* C16: the Registry lock is never held across a write.  Whenever the
\* Registry lock is held, its holder is a send_message inside its loop, which
\* waits for no Sink, and not a write task; so the lock comes free again and
\* again, also while the writes to a Sink stall for ever.
RegistryHolders == {t \in sendTasks : t.pc = "iter"}

C16_RegistryLockNotHeldAcrossWrite ==
    /\ [](regLock => Cardinality(RegistryHolders) = 1)
    /\ [](~regLock => RegistryHolders = {})
    /\ []<>(~regLock)

\* A write is inside write_all on a Sink and another waits for that Sink's
\* lock, while the Registry lock is free and a Sink has been registered that
\* was not there when the two messages were dequeued.
C16_Witness ==
    /\ ~regLock
    /\ \E t \in writeTasks, u \in writeTasks :
           /\ t.sink = u.sink
           /\ t.pc = "write" /\ u.pc = "lock"
           /\ \E s \in Range(upgrades) : s \notin t.begun \cup u.begun

\* C17: the Sink lock is released on every exit path.  A Sink's lock is held
\* only while a write task is inside write_all on it; in the state after a
\* write task has finished, well or not, its Sink's lock is free; and the
\* write tasks waiting for a Sink's lock all get it in the end.
Finished == {t \in writeTasks \ writeTasks' : t.pc = "write"}

C17_SinkLockReleased ==
    /\ [](\A s \in Sinks : sinkLock[s] => Writing(s) # {})
    /\ [][\A t \in Finished : ~sinkLock'[t.sink]]_vars
    /\ []<>(\A t \in writeTasks : t.pc # "lock")

\* A write to a Sink has failed, and a later write task for the same Sink has
\* got the lock and is inside write_all.
C17_Witness ==
    \E s \in Sinks :
        /\ failed[s] # {}
        /\ \E t \in Writing(s) : t.msg \notin failed[s]

\* C18: exactly one write per (message, Sink).  The Registry holds no Sink
\* twice; a send_message that walks the Registry spawns, for every Sink in it,
\* exactly one write task, carrying the serialized message, and none for any
\* other Sink; no write of that message to that Sink was spawned before; and a
\* write that ends is the first of its message on its Sink.
Spawned == {w \in writeTasks' \ writeTasks : w.pc = "lock"}

NoSinkTwice ==
    \A i \in 1 .. Len(upgrades) : \A j \in 1 .. Len(upgrades) :
        upgrades[i] = upgrades[j] => i = j

OneWritePerSink(t) ==
    /\ \A s \in Range(upgrades) :
           /\ Cardinality({w \in Spawned : w.msg = t.msg /\ w.sink = s}) = 1
           /\ <<t.msg, s>> \notin fanout
           /\ \A w \in writeTasks : ~(w.msg = t.msg /\ w.sink = s)
    /\ \A w \in Spawned :
           /\ w.msg = t.msg
           /\ w.payload = Format(t.msg)
           /\ w.sink \in Range(upgrades)

C18_OneWritePerMessageAndSink ==
    /\ []NoSinkTwice
    /\ [][/\ \A t \in Walked : OneWritePerSink(t)
          /\ Walked = {} => Spawned = {}
          /\ \A t \in Finished : ~Attempted(t.msg, t.sink)]_vars

\* Two messages have been broadcast to a Registry of two Sinks: both are
\* written to one of them, and the other has the first and is being written
\* the second.
C18_Witness ==
    \E a \in Sinks, b \in Sinks, m \in Msgs, n \in Msgs :
        /\ a # b /\ m # n
        /\ {<<m, a>>, <<m, b>>, <<n, a>>, <<n, b>>} \subseteq fanout
        /\ {m, n} \subseteq written[a]
        /\ m \in written[b]
        /\ \E t \in Writing(b) : t.msg = n

\* C19: deadlock freedom.  A task that holds the Registry lock can take its
\* next step without any Sink lock, and a task that holds a Sink lock can take
\* its next step without the Registry lock: no task waits for one kind of
\* lock while it holds the other, and every held lock has such a holder.  So
\* the tasks never wait on each other for ever: again and again all of them
\* have finished.
HoldsRegistry(t) == t \in sendTasks /\ t.pc = "iter"

HoldsSink(t) == t \in writeTasks /\ t.pc = "write"

NoHoldAndWait ==
    /\ \A t \in sendTasks : HoldsRegistry(t) => ENABLED SendLoopStep(t)
    /\ \A t \in writeTasks : HoldsSink(t) => ENABLED WriteEndStep(t, TRUE)
    /\ regLock => \E t \in sendTasks : HoldsRegistry(t)
    /\ \A s \in Sinks : sinkLock[s] => \E t \in writeTasks :
           HoldsSink(t) /\ t.sink = s

C19_DeadlockFreedom ==
    /\ []NoHoldAndWait
    /\ []<>(sendTasks = {} /\ writeTasks = {})

\* Both kinds of lock are contended at once: a send_message holds the Registry
\* lock while another waits for it, and a write task holds a Sink's lock.
C19_Witness ==
    /\ \E t \in sendTasks : HoldsRegistry(t)
    /\ \E t \in sendTasks : t.pc = "spawned"
    /\ \E t \in writeTasks : HoldsSink(t)

\* C20: selection rule of one advance.  A call of poll_next leaves the
\* Receiver list and the Registry as they were.  When no attached Receiver has
\* a message it leaves every queue as it was; otherwise it takes the head of
\* the queue of the first Receiver, in the order of the list, that has a
\* message, and leaves every other queue as it was.
HasMessage(i) == queue[receivers[i]] # <<>>

TakesFrom(i) ==
    /\ HasMessage(i)
    /\ \A j \in 1 .. i - 1 : ~HasMessage(j)
    /\ queue'[receivers[i]] = Tail(queue[receivers[i]])
    /\ \A r \in Channels \ {receivers[i]} : queue'[r] = queue[r]

C20_OneAdvance ==
    [][PollCalled =>
           /\ receivers' = receivers
           /\ upgrades' = upgrades
           /\ IF \E i \in 1 .. Len(receivers) : HasMessage(i)
              THEN \E i \in 1 .. Len(receivers) : TakesFrom(i)
              ELSE queue' = queue]_vars

\* poll_next has taken the only message of the first Receiver and left the
\* two messages of the second, which it will take next.
C20_Witness ==
    /\ Len(receivers) >= 2
    /\ last = 1
    /\ queue[receivers[1]] = <<>>
    /\ Len(queue[receivers[2]]) = 2
    /\ \E t \in sendTasks : t.msg.r = receivers[1] /\ t.pc = "spawned"

=============================================================================
